---- MODULE Spec2Model ----
(***************************************************************************)
(* Model of the video-analytics server (server.js): the upload handler,    *)
(* the restart-extraction handler, runPythonScript and the request         *)
(* handlers that write a dataset's extracted.csv, together with the Batch  *)
(* Runner subprocess (extract_video_info_fast.py) they drive.              *)
(*                                                                         *)
(* One dataset directory is modelled.  A file is a record [exists, rows];  *)
(* the header line of a CSV file is implicit in "exists".                  *)
(***************************************************************************)
EXTENDS Integers, Sequences, FiniteSets, TLC

----------------------------------------------------------------------------
(* Bounds of the model *)

\* longest clean.csv (data rows) the Excel step can produce
MaxRows == 2
\* handler slots that can run an orchestration at the same time
MaxHandlers == 2
\* restart-extraction requests accepted over one behaviour
MaxRestarts == 1
\* reads of extracted.csv by the clients that later write it back
MaxClientReads == 1
\* server.js:217/776 pass maxVideosPerRun = 50 to the Batch Runner; the model
\* scales the per-invocation budget down so that several invocations happen
maxVideosPerRun == 1
\* server.js:218/777 set maxRuns = 10; scaled down the same way
maxRuns == 3
\* DatasetEditor shows itemsPerPage = 20 rows a page; scaled down so that a
\* dataset of MaxRows rows has several pages
itemsPerPage == 1

----------------------------------------------------------------------------
(* Titles and rows *)

\* video titles, as character sequences (update-source matches by substring)
Titles == {<<"a">>, <<"a", "b">>}

\* the text the Batch Runner extracts for an item, or "N/A"
RunnerSources == {"N/A"}

\* a source text entered by hand through /api/update-source
ManualSource == "manual"

Row(t, s) == [title |-> t, source |-> s]

Handlers == 1..MaxHandlers

RECURSIVE SeqsUpTo(_, _)
SeqsUpTo(S, n) ==
  IF n = 0 THEN {<<>>}
  ELSE LET shorter == SeqsUpTo(S, n - 1)
       IN  shorter \cup {Append(s, x) : s \in {q \in shorter : Len(q) = n - 1}, x \in S}

Inputs == SeqsUpTo(Titles, MaxRows)

Min(a, b) == IF a < b THEN a ELSE b

Range(s) == {s[i] : i \in 1..Len(s)}

----------------------------------------------------------------------------
(* Files *)

Absent == [exists |-> FALSE, rows |-> <<>>]

File(rows) == [exists |-> TRUE, rows |-> rows]

\* the lines of a CSV file: the header line, then one line per row
FileLines(f) == <<"header">> \o [i \in 1..Len(f.rows) |-> "row"]

\* cleanCsv.split('\n').filter(line => line.trim()).length - 1
CountDataLines(f) == Len(SelectSeq(FileLines(f), LAMBDA l : l # "")) - 1

\* processedVideos: the data lines of extracted.csv, 0 when it cannot be read
ProcessedVideos(f) == IF f.exists THEN CountDataLines(f) ELSE 0

TitlesOf(f) == {f.rows[i].title : i \in 1..Len(f.rows)}

----------------------------------------------------------------------------
(* Paths: strings as sequences of characters *)

\* s.split('/'), continued from the segment cur
RECURSIVE SplitFrom(_, _)
SplitFrom(s, cur) ==
  IF s = <<>> THEN <<cur>>
  ELSE IF Head(s) = "/" THEN <<cur>> \o SplitFrom(Tail(s), <<>>)
  ELSE SplitFrom(Tail(s), Append(cur, Head(s)))

\* the non-empty segments of a path
Segments(s) == SelectSeq(SplitFrom(s, <<>>), LAMBDA g : g # <<>>)

\* the segments with '.' dropped and '..' taking the segment before it away
RECURSIVE NormalizeSegs(_, _)
NormalizeSegs(segs, acc) ==
  IF segs = <<>> THEN acc
  ELSE IF Head(segs) = <<".">> THEN NormalizeSegs(Tail(segs), acc)
  ELSE IF Head(segs) = <<".", ".">>
       THEN NormalizeSegs(Tail(segs), IF acc = <<>> THEN acc ELSE SubSeq(acc, 1, Len(acc) - 1))
  ELSE NormalizeSegs(Tail(segs), Append(acc, Head(segs)))

RECURSIVE Unsplit(_)
Unsplit(segs) == IF segs = <<>> THEN <<>> ELSE <<"/">> \o Head(segs) \o Unsplit(Tail(segs))

\* path.resolve of an absolute path
PathResolve(p) ==
  LET segs == NormalizeSegs(Segments(p), <<>>)
  IN  IF segs = <<>> THEN <<"/">> ELSE Unsplit(segs)

\* path.join(a, b)
PathJoin(a, b) == PathResolve(a \o <<"/">> \o b)

\* String.prototype.startsWith
StartsWith(s, prefix) == Len(s) >= Len(prefix) /\ SubSeq(s, 1, Len(prefix)) = prefix

\* directory d is p or lies below p
AtOrBelow(d, p) ==
  LET ds == Segments(d)
      ps == Segments(p)
  IN  Len(ds) >= Len(ps) /\ SubSeq(ds, 1, Len(ps)) = ps

\* __dirname and path.join(__dirname, 'datasets')
Dirname == <<"/", "a">>
DatasetsDir == PathJoin(Dirname, <<"d">>)

----------------------------------------------------------------------------
(* POST /api/upload, request by request *)
MaxUploads == 2
MaxClock == 3
TicksPerSecond == 2

Uploads == 1..MaxUploads

\* file.originalname of the uploaded report
FileNames == {"a.xlsx", "b.xlsx"}

\* the input_file and output_file lines of process_excel.py as shipped
NoSettings == [input_file |-> "none", output_file |-> <<>>]

\* an upload request not made yet
NoUpload ==
  [pc |-> "none", filename |-> "none", datasetId |-> <<>>, ran |-> NoSettings, readFrom |-> 0]

\* crypto.createHash('md5').update(filename).digest('hex').substring(0, 8)
Md5Prefix(n) == IF n = "a.xlsx" THEN "6392bca4" ELSE "8ed9ed24"

\* new Date().toISOString().slice(0, 19): the time without its milliseconds
Timestamp(t) == t \div TicksPerSecond

\* `${timestamp}_${hash}`
generateDatasetId(filename, t) == <<Timestamp(t), Md5Prefix(filename)>>

----------------------------------------------------------------------------
(* runPythonScript, event by event *)
MaxCalls == 2
CallIds == 1..MaxCalls

\* a call not made yet; settled counts the calls of resolve and reject, by
\* names the handler that settled the promise first
NotCalled ==
  [state |-> "none", isResolved |-> FALSE, timer |-> "none", settled |-> 0,
   outcome |-> "pending", by |-> "none", signal |-> "none",
   closed |-> FALSE, errored |-> FALSE]

----------------------------------------------------------------------------
VARIABLES
  input,               \* the rows the uploaded Excel report holds
  cleanCsv,            \* datasets/<id>/clean.csv
  extractedCsv,        \* datasets/<id>/extracted.csv
  metadata,            \* datasets/<id>/metadata.json
  progress,            \* progress.json
  kind,                \* per handler: "none", "upload" or "restart"
  pc,                  \* per handler: position in the handler
  currentRun,          \* per handler: the loop counter currentRun
  allVideosProcessed,  \* per handler: the loop flag allVideosProcessed
  proc,                \* per handler: the subprocess of runPythonScript
  batch,               \* per handler: the titles its Batch Runner will process
  done,                \* per handler: items its Batch Runner has appended
  atStart,             \* per handler: processed titles its Batch Runner read
  usCopy,              \* /api/update-source: the content it has read
  editorCopy,          \* DatasetEditor: the content it has loaded
  clientReads,         \* reads of extracted.csv by those two so far
  restarts,            \* restart-extraction requests accepted so far
  launched,            \* per handler: Batch Runner invocations launched
  lastAdded,           \* per handler: rows the last ended invocation appended
  relaunchedAfterZero, \* per handler: launched right after a zero-row invocation
  crash,               \* the last kill of a Batch Runner, until the next launch
  sawAll,              \* per handler: a count after an invocation found every row
  launchedAfterAll,    \* per handler: launched after such a count
  markedWithout,       \* a dataset was marked completed without such a count
  searchTerm,          \* DatasetEditor: the state searchTerm
  currentPage,         \* DatasetEditor: the state currentPage
  editingCell,         \* DatasetEditor: the state editingCell, and the row clicked
  rootCsv,             \* videa_s_extrahovanymi_info.csv beside server.js exists
  publicCsv,           \* public/videa_s_extrahovanymi_info.csv
  waitPc,              \* FileUpload.waitForProcessingComplete: where it is
  attempts,            \* FileUpload.waitForProcessingComplete: the counter attempts
  uploadEnded,         \* history: how the extraction of the upload ended
  shown,               \* GlobalProgress: the state progress (the card shown)
  hideTimer,           \* GlobalProgress: the 5 s timer that hides the card is pending
  polled,              \* history: the snapshot the latest poll of GlobalProgress got
  putAnswer,           \* PUT /api/datasets/:id/update: the status of the last answer
  answered,            \* history: the statuses that endpoint has answered with
  calls,               \* per call of runPythonScript: its closure and its promise
  dirs,                \* the directories that exist, by absolute path
  delId,               \* DELETE /api/datasets/:datasetId: the last datasetId
  delAnswer,           \* DELETE /api/datasets/:datasetId: the status of the last answer
  removed,             \* history: the directories the last DELETE removed
  now,                 \* the clock, in ticks
  ups,                 \* per POST /api/upload request: its locals and position
  scriptFile,          \* process_excel.py: its input_file and output_file lines
  disk,                \* per file name: the upload whose file multer stored last
  clean                \* the clean.csv files: dataset ID and whose rows they hold

files == <<cleanCsv, extractedCsv, metadata, progress>>
orch == <<kind, pc, currentRun, allVideosProcessed>>
runner == <<proc, batch, done, atStart>>
clients == <<usCopy, editorCopy, clientReads>>
completion == <<sawAll, launchedAfterAll, markedWithout>>
ghosts == <<launched, lastAdded, relaunchedAfterZero, crash, completion>>
editor == <<searchTerm, currentPage, editingCell>>
waiter == <<waitPc, attempts>>
card == <<shown, hideTimer, polled>>
put == <<putAnswer, answered>>
fsys == <<dirs, delId, delAnswer, removed>>
two == <<now, ups, scriptFile, disk, clean>>
rest == <<card, put, calls, fsys, two>>
aux == <<rootCsv, publicCsv, waiter, uploadEnded, rest>>
vars == <<input, files, orch, runner, clients, restarts, ghosts, editor, aux>>

----------------------------------------------------------------------------
(* metadata.json and progress.json *)

NoMetadata ==
  [status |-> "none", excel_processed |-> FALSE, extraction_completed |-> FALSE,
   modifiedBy |-> "none"]

Metadata(s, e, x) ==
  [status |-> s, excel_processed |-> e, extraction_completed |-> x, modifiedBy |-> "none"]

\* progress.json is one file beside server.js, whatever the dataset: a snapshot
\* records who wrote it (by, dataset), which keys the JSON object has (fields)
\* and, where the key is present, the percentage
NoProgress == [status |-> "idle", current |-> 0, total |-> 0, by |-> "none",
               dataset |-> 0, percentage |-> 0, fields |-> {}]

Progress(s, c, t, w) == [status |-> s, current |-> c, total |-> t, by |-> w,
                         dataset |-> 1, percentage |-> 0, fields |-> {}]

\* the keys of the object written after an invocation and at the end of a restart
CountKeys == {"current", "total", "status", "message"}

\* the keys of the object /api/upload writes after its loop
UploadFinalKeys == {"status", "message", "current", "total", "timestamp"}

\* the keys of the object the catch block of /api/upload writes
UploadCatchKeys == {"status", "message", "progress", "timestamp"}

\* the keys of a ProgressSnapshot
SnapshotKeys == {"current", "total", "status", "message", "percentage"}

\* percentage = round(current / total * 100)
Percentage(c, t) == IF t = 0 THEN 0 ELSE (200 * c + t) \div (2 * t)

\* the snapshot the Batch Runner writes after an item
RunnerProgress(c, t) ==
  [Progress("processing", c, t, "runner") EXCEPT
     !.percentage = Percentage(c, t), !.fields = SnapshotKeys]

\* JSON.stringify({current, total, status: 'processing', message}) after an invocation
CheckProgressJson(c, t) ==
  [Progress("processing", c, t, "orchestrator") EXCEPT !.fields = CountKeys]

\* the object written after the loop, by /api/upload and by restart-extraction
FinalProgressJson(k, status, c, t) ==
  [Progress(status, c, t, "orchestrator") EXCEPT
     !.fields = IF k = "upload" THEN UploadFinalKeys ELSE CountKeys]

\* the object written by the catch block
CatchProgressJson(k) ==
  [Progress("error", 0, 0, "orchestrator") EXCEPT
     !.fields = IF k = "upload" THEN UploadCatchKeys ELSE CountKeys]

\* GET /api/progress: the parsed file, or the default when it cannot be read
ProgressResponse(p) ==
  IF p.by = "none"
  THEN [status |-> "idle", current |-> 0, total |-> 0, percentage |-> 0,
        fields |-> SnapshotKeys]
  ELSE [status |-> p.status, current |-> p.current, total |-> p.total,
        percentage |-> p.percentage, fields |-> p.fields]

\* GlobalProgress: useState<ProgressData | null>(null)
NoSnapshot ==
  [status |-> "null", current |-> 0, total |-> 0, percentage |-> 0, fields |-> {}]

----------------------------------------------------------------------------
(* runPythonScript *)

NoProc == [state |-> "none", script |-> "none", isResolved |-> FALSE,
           timer |-> FALSE, signal |-> "none"]

\* mutant of Spawned: no timer is set
SpawnedNoTimer(script) == [state |-> "running", script |-> script, isResolved |-> FALSE,
                           timer |-> FALSE, signal |-> "none"]

\* spawn('python3', [scriptPath, ...args]) and setTimeout(..., timeoutMs)
Spawned(script) == [state |-> "running", script |-> script, isResolved |-> FALSE,
                    timer |-> TRUE, signal |-> "none"]

\* the spawn itself failed: the 'error' event is to come
SpawnFailed(script) == [state |-> "failed", script |-> script, isResolved |-> FALSE,
                        timer |-> TRUE, signal |-> "none"]

\* a Batch Runner subprocess that is alive
RunnerAlive(o) == proc[o].state = "running" /\ proc[o].script = "extract"

----------------------------------------------------------------------------
(* The Batch Runner (extract_video_info_fast.py) *)

\* pending = inputRows filtered by title not in alreadyProcessedTitles
Pending(in, out) == SelectSeq(in.rows, LAMBDA t : t \notin TitlesOf(out))

\* mutant of TakeBatch: every pending row is taken twice
TakeBatchTwice(p, m) == p \o p

\* take up to maxItems from pending
TakeBatch(p, m) == SubSeq(p, 1, Min(m, Len(p)))

\* append one ExtractedRow to the output store
AppendRow(f, r) == File(Append(f.rows, r))

----------------------------------------------------------------------------
(* DatasetEditor state *)

\* editingCell === null
NoCell == [editing |-> FALSE, row |-> 0, shown |-> 0]

----------------------------------------------------------------------------
Init ==
  /\ input \in Inputs
  /\ cleanCsv = Absent
  /\ extractedCsv = Absent
  /\ metadata = NoMetadata
  /\ progress = NoProgress
  /\ kind = [o \in Handlers |-> "none"]
  /\ pc = [o \in Handlers |-> "idle"]
  /\ currentRun = [o \in Handlers |-> 0]
  /\ allVideosProcessed = [o \in Handlers |-> FALSE]
  /\ proc = [o \in Handlers |-> NoProc]
  /\ batch = [o \in Handlers |-> <<>>]
  /\ done = [o \in Handlers |-> 0]
  /\ atStart = [o \in Handlers |-> Absent]
  /\ usCopy = Absent
  /\ editorCopy = Absent
  /\ clientReads = 0
  /\ restarts = 0
  /\ launched = [o \in Handlers |-> 0]
  /\ lastAdded = [o \in Handlers |-> -1]
  /\ relaunchedAfterZero = [o \in Handlers |-> FALSE]
  /\ crash = [killed |-> FALSE, intact |-> TRUE, rows |-> <<>>, lost |-> FALSE]
  /\ sawAll = [o \in Handlers |-> FALSE]
  /\ launchedAfterAll = [o \in Handlers |-> FALSE]
  /\ markedWithout = FALSE
  /\ searchTerm = <<>>
  /\ currentPage = 1
  /\ editingCell = NoCell
  /\ rootCsv = FALSE
  /\ publicCsv = Absent
  /\ waitPc = "idle"
  /\ attempts = 0
  /\ uploadEnded = "no"
  /\ shown = NoSnapshot
  /\ hideTimer = FALSE
  /\ polled = NoSnapshot
  /\ putAnswer = 0
  /\ answered = {}
  /\ calls = [c \in CallIds |-> NotCalled]
  /\ dirs = {Dirname}
  /\ delId = <<>>
  /\ delAnswer = 0
  /\ removed = {}
  /\ now = 0
  /\ ups = [u \in Uploads |-> NoUpload]
  /\ scriptFile = NoSettings
  /\ disk = [n \in FileNames |-> 0]
  /\ clean = {}

\* a handler slot no request occupies
Free(o) == pc[o] \in {"idle", "done"} /\ proc[o].state = "none"

\* a request is served in the first free slot
FirstFree(o) == Free(o) /\ \A p \in Handlers : p < o => ~Free(p)

\* where a handler continues when the promise of runPythonScript rejects
RejectTarget(o) == IF proc[o].script = "excel" THEN "done" ELSE "catch"

\* the rows the output holds if nothing but this invocation wrote it
ExpectedTitles(o) ==
  [i \in 1..Len(atStart[o].rows) |-> atStart[o].rows[i].title] \o SubSeq(batch[o], 1, done[o])

FileTitles(f) == [i \in 1..Len(f.rows) |-> f.rows[i].title]

\* a Batch Runner is killed or dies: what the output holds at that moment
Crashed(o) ==
  [killed |-> TRUE, intact |-> FileTitles(extractedCsv) = ExpectedTitles(o),
   rows |-> extractedCsv.rows, lost |-> crash.lost]

\* the subprocess of handler o is gone: its working state is dropped
RunnerGone(o) ==
  /\ batch' = [batch EXCEPT ![o] = <<>>]
  /\ done' = [done EXCEPT ![o] = 0]
  /\ atStart' = [atStart EXCEPT ![o] = Absent]

\* handler o returns: its local variables are dropped
HandlerReturns(o) ==
  /\ pc' = [pc EXCEPT ![o] = "done"]
  /\ currentRun' = [currentRun EXCEPT ![o] = 0]
  /\ allVideosProcessed' = [allVideosProcessed EXCEPT ![o] = FALSE]
  /\ launched' = [launched EXCEPT ![o] = 0]
  /\ lastAdded' = [lastAdded EXCEPT ![o] = -1]
  /\ relaunchedAfterZero' = [relaunchedAfterZero EXCEPT ![o] = FALSE]
  /\ sawAll' = [sawAll EXCEPT ![o] = FALSE]
  /\ launchedAfterAll' = [launchedAfterAll EXCEPT ![o] = FALSE]

(* POST /api/upload, up to the call of process_excel.py *)
UploadRequest(o) ==
  /\ FirstFree(o)
  /\ metadata.status = "none"
  /\ metadata' = Metadata("processing", FALSE, FALSE)
  /\ kind' = [kind EXCEPT ![o] = "upload"]
  /\ pc' = [pc EXCEPT ![o] = "excel"]
  /\ currentRun' = [currentRun EXCEPT ![o] = 0]
  /\ allVideosProcessed' = [allVideosProcessed EXCEPT ![o] = FALSE]
  /\ \E ok \in BOOLEAN :
       proc' = [proc EXCEPT ![o] = IF ok THEN Spawned("excel") ELSE SpawnFailed("excel")]
  /\ launched' = [launched EXCEPT ![o] = 0]
  /\ lastAdded' = [lastAdded EXCEPT ![o] = -1]
  /\ relaunchedAfterZero' = [relaunchedAfterZero EXCEPT ![o] = FALSE]
  /\ UNCHANGED <<input, aux, editor, cleanCsv, extractedCsv, progress, batch, done, atStart,
                 clients, restarts, crash, completion>>

(* process_excel.py ends with exit code `code`; the 'close' handler *)
ExcelClose(o, code) ==
  /\ proc[o].state = "running" /\ proc[o].script = "excel"
  /\ ~proc[o].isResolved
  /\ proc' = [proc EXCEPT ![o] = NoProc]
  /\ IF code = 0
     THEN /\ cleanCsv' = File(input)
          /\ metadata' = [metadata EXCEPT !.excel_processed = TRUE]
          /\ pc' = [pc EXCEPT ![o] = "loop"]
     ELSE /\ pc' = [pc EXCEPT ![o] = RejectTarget(o)]
          /\ UNCHANGED <<cleanCsv, metadata>>
  /\ waitPc' = IF code = 0 /\ kind[o] = "upload" THEN "polling" ELSE waitPc
  /\ UNCHANGED <<input, rootCsv, publicCsv, attempts, uploadEnded, rest, editor, extractedCsv, progress, kind, currentRun, allVideosProcessed,
                 batch, done, atStart, clients, restarts, ghosts>>

(* runPythonScript: the 'error' event of a subprocess that failed to spawn *)
ErrorEvent(o) ==
  /\ proc[o].state = "failed"
  /\ ~proc[o].isResolved
  /\ proc' = [proc EXCEPT ![o] = NoProc]
  /\ pc' = [pc EXCEPT ![o] = RejectTarget(o)]
  /\ lastAdded' = [lastAdded EXCEPT ![o] = IF proc[o].script = "extract" THEN 0 ELSE @]
  /\ RunnerGone(o)
  /\ UNCHANGED <<input, aux, editor, files, kind, currentRun, allVideosProcessed,
                 clients, restarts, launched, relaunchedAfterZero, crash, completion>>

(* runPythonScript: the timer fires before the subprocess has closed *)
Timeout(o) ==
  /\ proc[o].state = "running"
  /\ proc[o].timer
  /\ ~proc[o].isResolved
  /\ \E groupKillThrows \in BOOLEAN :
       proc' = [proc EXCEPT ![o] = [@ EXCEPT !.state = "killed", !.isResolved = TRUE,
                  !.timer = FALSE,
                  !.signal = IF groupKillThrows THEN "SIGKILL" ELSE "SIGTERM"]]
  /\ pc' = [pc EXCEPT ![o] = RejectTarget(o)]
  /\ IF proc[o].script = "extract"
     THEN /\ crash' = Crashed(o)
          /\ lastAdded' = [lastAdded EXCEPT ![o] = done[o]]
     ELSE UNCHANGED <<crash, lastAdded>>
  /\ RunnerGone(o)
  /\ UNCHANGED <<input, aux, editor, files, kind, currentRun, allVideosProcessed,
                 clients, restarts, launched, relaunchedAfterZero, completion>>

(* runPythonScript: the 'close' event of a subprocess the timeout has killed *)
CloseAfterKill(o) ==
  /\ proc[o].state = "killed"
  /\ proc[o].isResolved
  /\ proc' = [proc EXCEPT ![o] = NoProc]
  /\ UNCHANGED <<input, aux, editor, files, orch, batch, done, atStart, clients, restarts, ghosts>>

----------------------------------------------------------------------------
(* The extraction loop of /api/upload and of restart-extraction *)

\* mutant of LoopGuard: currentRun <= maxRuns
LoopGuardOffByOne(o) == ~allVideosProcessed[o] /\ currentRun[o] <= maxRuns

\* while (!allVideosProcessed && currentRun < maxRuns)
LoopGuard(o) == ~allVideosProcessed[o] /\ currentRun[o] < maxRuns

(* currentRun++ and runPythonScript('extract_video_info_fast.py', ...):  *)
(* the Batch Runner starts and reads its input and its output            *)
LaunchRunner(o) ==
  /\ pc[o] = "loop"
  /\ LoopGuard(o)
  /\ proc[o].state = "none"
  /\ currentRun' = [currentRun EXCEPT ![o] = @ + 1]
  /\ pc' = [pc EXCEPT ![o] = "await"]
  /\ \E ok \in BOOLEAN :
       proc' = [proc EXCEPT ![o] = IF ok THEN Spawned("extract") ELSE SpawnFailed("extract")]
  /\ batch' = [batch EXCEPT ![o] = TakeBatch(Pending(cleanCsv, extractedCsv), maxVideosPerRun)]
  /\ done' = [done EXCEPT ![o] = 0]
  /\ atStart' = [atStart EXCEPT ![o] = extractedCsv]
  /\ launched' = [launched EXCEPT ![o] = @ + 1]
  /\ relaunchedAfterZero' = [relaunchedAfterZero EXCEPT ![o] = (lastAdded[o] = 0)]
  /\ crash' = [killed |-> FALSE, intact |-> TRUE, rows |-> <<>>,
               lost |-> crash.lost \/ (crash.killed /\ ~(Range(crash.rows) \subseteq Range(extractedCsv.rows)))]
  /\ launchedAfterAll' = [launchedAfterAll EXCEPT ![o] = sawAll[o]]
  /\ UNCHANGED <<input, aux, editor, files, kind, allVideosProcessed, clients, restarts, lastAdded,
                 sawAll, markedWithout>>

(* the loop ends: its condition is false *)
LoopExit(o) ==
  /\ pc[o] = "loop"
  /\ ~LoopGuard(o)
  /\ pc' = [pc EXCEPT ![o] = "finish"]
  /\ UNCHANGED <<input, aux, editor, files, kind, currentRun, allVideosProcessed, runner, clients,
                 restarts, ghosts>>

(* the Batch Runner processes its next item: appends the row, writes progress *)
RunnerItem(o) ==
  /\ RunnerAlive(o)
  /\ done[o] < Len(batch[o])
  /\ \E s \in RunnerSources :
       extractedCsv' = AppendRow(extractedCsv, Row(batch[o][done[o] + 1], s))
  /\ done' = [done EXCEPT ![o] = @ + 1]
  /\ progress' = RunnerProgress(done[o] + 1, Len(cleanCsv.rows))
  /\ UNCHANGED <<input, aux, editor, cleanCsv, metadata, orch, proc, batch, atStart, clients,
                 restarts, ghosts>>

(* the Batch Runner ends with exit code `code`; the 'close' handler *)
RunnerClose(o, code) ==
  /\ RunnerAlive(o)
  /\ ~proc[o].isResolved
  /\ code = 0 => done[o] = Len(batch[o])
  /\ proc' = [proc EXCEPT ![o] = NoProc]
  /\ pc' = [pc EXCEPT ![o] = IF code = 0 THEN "check" ELSE RejectTarget(o)]
  /\ lastAdded' = [lastAdded EXCEPT ![o] = done[o]]
  /\ crash' = IF code = 0 THEN crash ELSE Crashed(o)
  /\ RunnerGone(o)
  /\ UNCHANGED <<input, aux, editor, files, kind, currentRun, allVideosProcessed,
                 clients, restarts, launched, relaunchedAfterZero, completion>>

\* mutant of Decide: processedVideos > totalVideos
DecideStrict(processedVideos, totalVideos) ==
  IF processedVideos > totalVideos THEN "all"
  ELSE IF processedVideos = 0 THEN "break"
  ELSE "continue"

\* if (processedVideos >= totalVideos) ... else if (processedVideos === 0) ... else ...
Decide(processedVideos, totalVideos) ==
  IF processedVideos >= totalVideos THEN "all"
  ELSE IF processedVideos = 0 THEN "break"
  ELSE "continue"

(* after an invocation: count the rows, write progress, decide *)
CheckProgress(o) ==
  /\ pc[o] = "check"
  /\ LET totalVideos == CountDataLines(cleanCsv)
         processedVideos == ProcessedVideos(extractedCsv)
         d == Decide(processedVideos, totalVideos)
     IN  /\ progress' = CheckProgressJson(processedVideos, totalVideos)
         /\ allVideosProcessed' = [allVideosProcessed EXCEPT ![o] = (d = "all")]
         /\ pc' = [pc EXCEPT ![o] = IF d = "break" THEN "finish" ELSE "loop"]
  /\ sawAll' = [sawAll EXCEPT ![o] = @ \/ Len(extractedCsv.rows) >= Len(cleanCsv.rows)]
  /\ UNCHANGED <<input, aux, editor, cleanCsv, extractedCsv, metadata, kind, currentRun, runner,
                 clients, restarts, launched, lastAdded, relaunchedAfterZero, crash,
                 launchedAfterAll, markedWithout>>

\* mutant of UploadFinalStatus: the two branches swapped
UploadFinalStatusSwapped(all) == IF all THEN "error" ELSE "completed"

\* /api/upload: metadata.status = allVideosProcessed ? 'completed' : 'error'
UploadFinalStatus(all) == IF all THEN "completed" ELSE "error"

\* restart-extraction: processedVideos >= totalVideos ? 'completed' : 'partial'
RestartFinalStatus(processedVideos, totalVideos) ==
  IF processedVideos >= totalVideos THEN "completed" ELSE "partial"

\* fs.copyFile inside try/catch: a missing source leaves the target as it was
CopyFile(from, to) == IF from.exists THEN from ELSE to

(* after the loop: final counts, metadata.json, progress.json, the public copy *)
Finish(o) ==
  /\ pc[o] = "finish"
  /\ LET totalVideos == CountDataLines(cleanCsv)
         processedVideos == ProcessedVideos(extractedCsv)
         status == IF kind[o] = "upload"
                   THEN UploadFinalStatus(allVideosProcessed[o])
                   ELSE RestartFinalStatus(processedVideos, totalVideos)
     IN  /\ metadata' = IF kind[o] = "upload"
                        THEN Metadata(status, TRUE, allVideosProcessed[o])
                        ELSE [metadata EXCEPT !.status = status,
                                !.extraction_completed = (processedVideos >= totalVideos)]
         /\ progress' = FinalProgressJson(kind[o], status, processedVideos, totalVideos)
         /\ markedWithout' = (markedWithout \/
               (status = "completed" /\ ~sawAll[o]
                  /\ Len(extractedCsv.rows) < Len(cleanCsv.rows)))
         /\ publicCsv' = IF kind[o] = "upload" THEN CopyFile(extractedCsv, publicCsv)
                         ELSE publicCsv
         /\ uploadEnded' = IF kind[o] # "upload" THEN uploadEnded
                           ELSE IF allVideosProcessed[o] THEN "all" ELSE "some"
  /\ HandlerReturns(o)
  /\ UNCHANGED <<input, rootCsv, waiter, rest, editor, cleanCsv, extractedCsv, kind, runner, clients,
                 restarts, crash>>

\* the metadata.json the catch block leaves: only /api/upload writes it
CatchMetadata(k, m) == IF k = "upload" THEN Metadata("error", TRUE, FALSE) ELSE m

(* catch (extractError) of /api/upload, catch (error) of restart-extraction *)
Catch(o) ==
  /\ pc[o] = "catch"
  /\ metadata' = CatchMetadata(kind[o], metadata)
  /\ progress' = CatchProgressJson(kind[o])
  /\ HandlerReturns(o)
  /\ UNCHANGED markedWithout
  /\ uploadEnded' = IF kind[o] = "upload" THEN "some" ELSE uploadEnded
  /\ UNCHANGED <<input, rootCsv, publicCsv, waiter, rest, editor, cleanCsv, extractedCsv, kind, runner, clients, restarts, crash>>

\* mutant of Unlink: the file is left as it is
UnlinkNot(f) == f

\* await fs.unlink(extractedPath)
Unlink(f) == Absent

(* POST /api/datasets/:datasetId/restart-extraction, up to its loop *)
RestartRequest(o) ==
  /\ FirstFree(o)
  /\ restarts < MaxRestarts
  /\ metadata.status # "none"
  /\ cleanCsv.exists
  /\ restarts' = restarts + 1
  /\ extractedCsv' = Unlink(extractedCsv)
  /\ kind' = [kind EXCEPT ![o] = "restart"]
  /\ pc' = [pc EXCEPT ![o] = "loop"]
  /\ currentRun' = [currentRun EXCEPT ![o] = 0]
  /\ allVideosProcessed' = [allVideosProcessed EXCEPT ![o] = FALSE]
  /\ launched' = [launched EXCEPT ![o] = 0]
  /\ lastAdded' = [lastAdded EXCEPT ![o] = -1]
  /\ relaunchedAfterZero' = [relaunchedAfterZero EXCEPT ![o] = FALSE]
  /\ UNCHANGED <<input, aux, editor, cleanCsv, metadata, progress, runner, clients, crash, completion>>

----------------------------------------------------------------------------
(* Request handlers that rewrite extracted.csv *)

\* values[titleIndex].includes(videoTitle)
Includes(s, q) == \E i \in 1..(Len(s) - Len(q) + 1) : SubSeq(s, i, i + Len(q) - 1) = q

\* the videoTitle values a client sends
Queries == Titles \cup {<<"b">>}

\* the index of the first row whose title includes videoTitle, 0 if none
FirstMatch(rows, q) ==
  IF \E i \in 1..Len(rows) : Includes(rows[i].title, q)
  THEN CHOOSE i \in 1..Len(rows) :
         /\ Includes(rows[i].title, q)
         /\ \A j \in 1..(i - 1) : ~Includes(rows[j].title, q)
  ELSE 0

\* mutant of UpdateSourceRows: newSource is written into the title column
UpdateSourceRowsTitleColumn(rows, q, newSource) ==
  IF FirstMatch(rows, q) = 0 THEN rows
  ELSE [rows EXCEPT ![FirstMatch(rows, q)].title = <<newSource>>]

\* values[sourceIndex] = newSource in the first matching row
UpdateSourceRows(rows, q, newSource) ==
  IF FirstMatch(rows, q) = 0 THEN rows
  ELSE [rows EXCEPT ![FirstMatch(rows, q)].source = newSource]

(* POST /api/update-source: reads the latest extracted.csv *)
UpdateSourceRead ==
  /\ extractedCsv.exists
  /\ ~usCopy.exists
  /\ clientReads < MaxClientReads
  /\ clientReads' = clientReads + 1
  /\ usCopy' = extractedCsv
  /\ UNCHANGED <<input, aux, editor, files, orch, runner, editorCopy, restarts, ghosts>>

(* POST /api/update-source: rewrites the file, or answers 404 *)
UpdateSourceWrite(q) ==
  /\ usCopy.exists
  /\ usCopy' = Absent
  /\ extractedCsv' = IF FirstMatch(usCopy.rows, q) = 0 THEN extractedCsv
                     ELSE File(UpdateSourceRows(usCopy.rows, q, ManualSource))
  /\ UNCHANGED <<input, aux, editor, cleanCsv, metadata, progress, orch, runner, editorCopy,
                 clientReads, restarts, ghosts>>

(* DatasetEditor.loadDatasetData: GET /datasets/:datasetId/extracted.csv *)
EditorLoad ==
  /\ extractedCsv.exists
  /\ clientReads < MaxClientReads
  /\ clientReads' = clientReads + 1
  /\ editorCopy' = extractedCsv
  /\ currentPage' = 1
  /\ UNCHANGED <<input, aux, files, orch, runner, usCopy, restarts, ghosts, searchTerm,
                 editingCell>>

(* PUT /api/datasets/:datasetId/update with the content the editor holds *)
DatasetUpdate ==
  /\ editorCopy.exists
  /\ metadata.status # "none"
  /\ extractedCsv' = File(editorCopy.rows)
  /\ UNCHANGED <<input, aux, editor, cleanCsv, metadata, progress, orch, runner, clients,
                 restarts, ghosts>>

----------------------------------------------------------------------------
ExitCodes == {0, 1}

\* the handlers and their subprocesses; requests may overlap
NextOrch ==
  \/ \E o \in Handlers : UploadRequest(o)
  \/ \E o \in Handlers, code \in ExitCodes : ExcelClose(o, code)
  \/ \E o \in Handlers : ErrorEvent(o)
  \/ \E o \in Handlers : Timeout(o)
  \/ \E o \in Handlers : CloseAfterKill(o)
  \/ \E o \in Handlers : LaunchRunner(o)
  \/ \E o \in Handlers : LoopExit(o)
  \/ \E o \in Handlers : RunnerItem(o)
  \/ \E o \in Handlers, code \in ExitCodes : RunnerClose(o, code)
  \/ \E o \in Handlers : CheckProgress(o)
  \/ \E o \in Handlers : Finish(o)
  \/ \E o \in Handlers : Catch(o)
  \/ \E o \in Handlers : RestartRequest(o)

Next ==
  \/ NextOrch
  \/ UpdateSourceRead
  \/ \E q \in Queries : UpdateSourceWrite(q)
  \/ EditorLoad
  \/ DatasetUpdate

Spec == Init /\ [][Next]_vars

----------------------------------------------------------------------------
(* One request at a time, and no client rewriting extracted.csv *)

SeqRestartRequest(o) == (\A p \in Handlers : Free(p)) /\ RestartRequest(o)

NextSeq ==
  \/ \E o \in Handlers : UploadRequest(o)
  \/ \E o \in Handlers, code \in ExitCodes : ExcelClose(o, code)
  \/ \E o \in Handlers : ErrorEvent(o)
  \/ \E o \in Handlers : Timeout(o)
  \/ \E o \in Handlers : CloseAfterKill(o)
  \/ \E o \in Handlers : LaunchRunner(o)
  \/ \E o \in Handlers : LoopExit(o)
  \/ \E o \in Handlers : RunnerItem(o)
  \/ \E o \in Handlers, code \in ExitCodes : RunnerClose(o, code)
  \/ \E o \in Handlers : CheckProgress(o)
  \/ \E o \in Handlers : Finish(o)
  \/ \E o \in Handlers : Catch(o)
  \/ \E o \in Handlers : SeqRestartRequest(o)

SeqSpec == Init /\ [][NextSeq]_vars

\* Node runs a handler's continuation once its promise has settled, emits the
\* 'error' event of a failed spawn and the 'close' event of a killed process,
\* and fires an armed timer; a subprocess itself may hang for ever.
Fairness ==
  \A o \in Handlers :
    /\ WF_vars(LaunchRunner(o))
    /\ WF_vars(LoopExit(o))
    /\ WF_vars(CheckProgress(o))
    /\ WF_vars(Finish(o))
    /\ WF_vars(Catch(o))
    /\ WF_vars(ErrorEvent(o))
    /\ WF_vars(Timeout(o))
    /\ WF_vars(CloseAfterKill(o))

FairSpec == Init /\ [][NextOrch]_vars /\ Fairness

----------------------------------------------------------------------------
(* Every subprocess starts, and ends with exit code 0 *)

UploadRequestOk(o) == UploadRequest(o) /\ proc'[o].state = "running"

LaunchRunnerOk(o) == LaunchRunner(o) /\ proc'[o].state = "running"

NextOk ==
  \/ \E o \in Handlers : UploadRequestOk(o)
  \/ \E o \in Handlers : ExcelClose(o, 0)
  \/ \E o \in Handlers : LaunchRunnerOk(o)
  \/ \E o \in Handlers : LoopExit(o)
  \/ \E o \in Handlers : RunnerItem(o)
  \/ \E o \in Handlers : RunnerClose(o, 0)
  \/ \E o \in Handlers : CheckProgress(o)
  \/ \E o \in Handlers : Finish(o)
  \/ \E o \in Handlers : SeqRestartRequest(o)

\* here the subprocesses run to their end too
FairnessOk ==
  \A o \in Handlers :
    /\ WF_vars(ExcelClose(o, 0))
    /\ WF_vars(LaunchRunnerOk(o))
    /\ WF_vars(LoopExit(o))
    /\ WF_vars(RunnerItem(o))
    /\ WF_vars(RunnerClose(o, 0))
    /\ WF_vars(CheckProgress(o))
    /\ WF_vars(Finish(o))

OkSpec == Init /\ [][NextOk]_vars /\ FairnessOk

----------------------------------------------------------------------------
(* DatasetEditor: search, pages, editing a cell *)

\* String.prototype.toLowerCase on the characters that occur
ToLower(s) ==
  [i \in 1..Len(s) |-> CASE s[i] = "N" -> "n" [] s[i] = "A" -> "a" [] OTHER -> s[i]]

\* the characters of a source text
SourceChars(x) ==
  CASE x = "N/A" -> <<"N", "/", "A">>
    [] x = "manual" -> <<"m", "a", "n", "u", "a", "l">>
    [] OTHER -> <<>>

\* what the user types into the search box
SearchTerms == Queries \cup {<<>>}

\* the predicate of videos.filter(...): title or extracted info includes the term
MatchesSearch(video, term) ==
  \/ Includes(ToLower(video.title), ToLower(term))
  \/ Includes(ToLower(SourceChars(video.source)), ToLower(term))

\* filteredVideos, as the indices into videos of the rows it holds
filteredVideos(videos, term) ==
  SelectSeq([i \in 1..Len(videos) |-> i], LAMBDA i : MatchesSearch(videos[i], term))

\* Math.ceil(filteredVideos.length / itemsPerPage)
totalPages(videos, term) == (Len(filteredVideos(videos, term)) + itemsPerPage - 1) \div itemsPerPage

\* (currentPage - 1) * itemsPerPage
startIndex(page) == (page - 1) * itemsPerPage

\* filteredVideos.slice(startIndex, startIndex + itemsPerPage)
paginatedVideos(videos, term, page) ==
  LET f == filteredVideos(videos, term)
  IN  SubSeq(f, startIndex(page) + 1, Min(startIndex(page) + itemsPerPage, Len(f)))

\* newVideos[editingCell.row]: the row of videos that saveEdit writes
EditedIndex(videos, row) == IF row + 1 \in 1..Len(videos) THEN row + 1 ELSE 0

(* the search box: setSearchTerm(e.target.value) *)
SetSearchTerm(t) ==
  /\ editorCopy.exists
  /\ t # searchTerm
  /\ searchTerm' = t
  /\ UNCHANGED <<input, aux, files, orch, runner, clients, restarts, ghosts, currentPage,
                 editingCell>>

(* the buttons of the pagination card, shown when totalPages > 1 *)
NextPage ==
  /\ editorCopy.exists
  /\ totalPages(editorCopy.rows, searchTerm) > 1
  /\ currentPage # totalPages(editorCopy.rows, searchTerm)
  /\ currentPage' = Min(totalPages(editorCopy.rows, searchTerm), currentPage + 1)
  /\ UNCHANGED <<input, aux, files, orch, runner, clients, restarts, ghosts, searchTerm,
                 editingCell>>

PrevPage ==
  /\ editorCopy.exists
  /\ totalPages(editorCopy.rows, searchTerm) > 1
  /\ currentPage # 1
  /\ currentPage' = IF currentPage - 1 > 1 THEN currentPage - 1 ELSE 1
  /\ UNCHANGED <<input, aux, files, orch, runner, clients, restarts, ghosts, searchTerm,
                 editingCell>>

(* a click on the source cell of the index-th row shown:                  *)
(* startEditing(actualIndex, field, value) with actualIndex = startIndex + index *)
StartEditing(index) ==
  /\ editorCopy.exists
  /\ ~editingCell.editing
  /\ index \in 0..(Len(paginatedVideos(editorCopy.rows, searchTerm, currentPage)) - 1)
  /\ editingCell' = [editing |-> TRUE, row |-> startIndex(currentPage) + index,
                      shown |-> paginatedVideos(editorCopy.rows, searchTerm, currentPage)[index + 1]]
  /\ UNCHANGED <<input, aux, files, orch, runner, clients, restarts, ghosts, searchTerm,
                 currentPage>>

(* saveEdit: newVideos[editingCell.row][field] = editValue; setVideos(newVideos) *)
SaveEdit ==
  /\ editingCell.editing
  /\ LET i == EditedIndex(editorCopy.rows, editingCell.row)
     IN  editorCopy' = IF i = 0 THEN editorCopy
                       ELSE File([editorCopy.rows EXCEPT ![i].source = ManualSource])
  /\ editingCell' = NoCell
  /\ UNCHANGED <<input, aux, files, orch, runner, usCopy, clientReads, restarts, ghosts,
                 searchTerm, currentPage>>

\* the editor, with one request at a time on the server
NextEditor ==
  \/ NextSeq
  \/ EditorLoad
  \/ \E t \in SearchTerms : SetSearchTerm(t)
  \/ NextPage
  \/ PrevPage
  \/ \E index \in 0..(itemsPerPage - 1) : StartEditing(index)
  \/ SaveEdit
  \/ DatasetUpdate

EditorSpec == Init /\ [][NextEditor]_vars

----------------------------------------------------------------------------
(* A second dataset whose extraction runs at the same time *)

\* an extraction of this dataset is under way
ExtractionActive == \E o \in Handlers : pc[o] \in {"loop", "await", "check", "finish", "catch"}

\* the handler of another dataset writes its counts after an invocation: the
\* path of progress.json, path.join(__dirname, 'progress.json'), has no dataset
OtherDatasetProgress(c) ==
  /\ progress' = [CheckProgressJson(c, 1) EXCEPT !.dataset = 2]
  /\ UNCHANGED <<input, aux, editor, cleanCsv, extractedCsv, metadata, orch, runner, clients,
                 restarts, ghosts>>

NextTwo ==
  \/ NextSeq
  \/ \E c \in 0..1 : OtherDatasetProgress(c)

TwoDatasetSpec == Init /\ [][NextTwo]_vars

----------------------------------------------------------------------------
(* Claims *)

\* C1: after an invocation that added zero new rows while rows remain, the
\* orchestrator launches no further invocation.
ClaimC1 == \A o \in Handlers : ~relaunchedAfterZero[o]

\* C2: at most one Batch Runner subprocess is alive at any time for the
\* dataset's extracted.csv.
ClaimC2 == Cardinality({o \in Handlers : RunnerAlive(o)}) <= 1

\* C3: while a Batch Runner is running, neither update-source nor the dataset
\* update changes the dataset's extracted.csv.
ClaimC3 ==
  [][(\E o \in Handlers : RunnerAlive(o)) =>
       \/ extractedCsv' = extractedCsv
       \/ ~(DatasetUpdate \/ \E q \in Queries : UpdateSourceWrite(q))]_vars

ClaimC5 == (crash.killed => crash.intact) /\ ~crash.lost

\* C6: a dataset is marked completed only after a count that followed an
\* invocation found at least as many rows in extracted.csv as in clean.csv,
\* and after such a count the orchestration launches no further invocation.
ClaimC6 == ~markedWithout /\ \A o \in Handlers : ~launchedAfterAll[o]

WitnessC6 ==
  /\ metadata.status = "completed"
  /\ Len(cleanCsv.rows) = MaxRows
  /\ \E o \in Handlers : pc[o] = "done" /\ kind[o] = "upload"

\* C8: when an invocation ends with a non-zero exit code, fails to spawn or
\* times out, the dataset's status becomes 'error'.
ClaimC8 ==
  [][\A o \in Handlers :
       (pc[o] = "catch" /\ pc'[o] = "done") => metadata'.status = "error"]_vars

\* C10: when the upload handler's work has ended the dataset's status is
\* 'completed' or 'error'.
ClaimC10 ==
  [][\A o \in Handlers :
       (kind[o] = "upload" /\ pc[o] # "done" /\ pc'[o] = "done")
         => metadata'.status \in {"completed", "error"}]_vars

\* C7: one orchestration launches at most maxRuns invocations, and every
\* handler that has started returns.
ClaimC7 ==
  /\ [](\A o \in Handlers : launched[o] <= maxRuns /\ currentRun[o] = launched[o])
  /\ \A o \in Handlers : (pc[o] \notin {"idle", "done"}) ~> (pc[o] = "done")

WitnessC7 == \E o \in Handlers : launched[o] = maxRuns /\ pc[o] = "finish"

ClaimC11 == Len(extractedCsv.rows) <= Len(cleanCsv.rows)

ClaimC13 ==
  LET r == ProgressResponse(progress)
  IN  /\ SnapshotKeys \subseteq r.fields
      /\ r.status \in {"idle", "processing", "completed", "error"}
      /\ r.percentage \in 0..100

\* C14: only a running Batch Runner changes the content of progress.json.
ClaimC14 == [][progress' = progress \/ \E o \in Handlers : RunnerItem(o)]_vars

\* C15: while an extraction of this dataset is under way, the progress it has
\* reported is not overwritten by the progress of another dataset.
ClaimC15 ==
  [][(ExtractionActive /\ progress.dataset = 1) => progress'.dataset # 2]_vars

Distinct(s) == \A i, j \in 1..Len(s) : s[i] = s[j] => i = j

CeilDiv(n, m) == (n + m - 1) \div m

\* the rows the i-th invocation is due: the next min(m, remaining) rows
NextSlice(rows, i, m) == SubSeq(rows, (i - 1) * m + 1, Min(i * m, Len(rows)))

\* the i-th invocation of an orchestration on n rows with distinct titles
\* processes the next min(m, remaining) rows, and the loop is left, with every
\* row processed, after exactly ceil(n/m) invocations
SlicedRuns(o) ==
  LET n == Len(cleanCsv.rows)
  IN  /\ RunnerAlive(o) => batch[o] = NextSlice(cleanCsv.rows, launched[o], maxVideosPerRun)
      /\ pc[o] = "finish" =>
            /\ allVideosProcessed[o]
            /\ launched[o] = CeilDiv(n, maxVideosPerRun)
            /\ Len(extractedCsv.rows) = n

ClaimC17 ==
  [][\A q \in Queries :
       UpdateSourceWrite(q) =>
         IF \E i \in 1..Len(usCopy.rows) : usCopy.rows[i].title = q
         THEN \E i \in 1..Len(usCopy.rows) :
                /\ usCopy.rows[i].title = q
                /\ extractedCsv' = File([usCopy.rows EXCEPT ![i].source = ManualSource])
         ELSE extractedCsv' = extractedCsv]_vars

\* C18: when every invocation exits with code 0 after processing its share of
\* the pending rows, an upload is eventually marked completed.
ClaimC18 ==
  (\E o \in Handlers : kind[o] = "upload" /\ pc[o] = "excel")
    ~> (metadata.status = "completed")

ClaimC20 ==
  [][SaveEdit =>
       /\ editingCell.shown \in 1..Len(editorCopy.rows)
       /\ editorCopy' = File([editorCopy.rows EXCEPT ![editingCell.shown].source = ManualSource])]_vars

\* C27: the status stored in the dataset's metadata.json is always one of
\* 'processing', 'completed' and 'error'.
ClaimC27 ==
  metadata # NoMetadata => metadata.status \in {"processing", "completed", "error"}

(***************************************************************************)
(* GET /api/status and FileUpload.waitForProcessingComplete                *)
(***************************************************************************)
maxAttempts == 2

\* GET /api/status: fs.access of videa_s_extrahovanymi_info.csv beside server.js
StatusResponse(root) == IF root THEN "completed" ELSE "processing"

(* one round of the loop of waitForProcessingComplete *)
StatusPoll ==
  /\ waitPc = "polling"
  /\ IF StatusResponse(rootCsv) = "completed"
     THEN /\ waitPc' = "returned"
          /\ UNCHANGED attempts
     ELSE /\ attempts' = attempts + 1
          /\ waitPc' = IF attempts + 1 < maxAttempts THEN "polling" ELSE "thrown"
  /\ UNCHANGED <<input, files, orch, runner, clients, restarts, ghosts, editor, rootCsv,
                 publicCsv, uploadEnded, rest>>

(* the standalone extract_video_info.py is run beside server.js: it writes
   videa_s_extrahovanymi_info.csv into that directory *)
LegacyExtract ==
  /\ ~rootCsv
  /\ rootCsv' = TRUE
  /\ UNCHANGED <<input, files, orch, runner, clients, restarts, ghosts, editor, publicCsv,
                 waiter, uploadEnded, rest>>

NextStatus ==
  \/ NextSeq
  \/ StatusPoll
  \/ LegacyExtract

StatusSpec == Init /\ [][NextStatus]_vars

\* C23: once the extraction of an upload has ended with all videos processed,
\* GET /api/status answers 'completed' and waitForProcessingComplete does not
\* throw; and /api/status answers 'completed', and the wait returns, only
\* after the extraction of the upload has finished.
ClaimC23 ==
  /\ uploadEnded = "all" => StatusResponse(rootCsv) = "completed"
  /\ StatusResponse(rootCsv) = "completed" => uploadEnded # "no"
  /\ waitPc = "returned" => uploadEnded # "no"

(***************************************************************************)
(* GlobalProgress                                                          *)
(***************************************************************************)
\* fetchProgress: what the state progress is set to when the poll answers data
NextShown(data, progress_) ==
  IF data.status = "processing" THEN data
  ELSE IF data.status = "completed" /\ progress_.status = "processing" THEN data
  ELSE IF data.status \in {"idle", "completed"} THEN NoSnapshot
  ELSE progress_

(* fetchProgress, run every 3 seconds *)
FetchProgress ==
  LET data == ProgressResponse(progress)
  IN  /\ shown' = NextShown(data, shown)
      /\ polled' = data
      /\ hideTimer' = (hideTimer \/ (data.status = "completed" /\ shown.status = "processing"))
      /\ UNCHANGED <<input, files, orch, runner, clients, restarts, ghosts, editor, rootCsv,
                     publicCsv, waiter, uploadEnded, put, calls, fsys, two>>

(* setTimeout(() => setProgress(null), 5000) fires *)
HideTimeout ==
  /\ hideTimer
  /\ hideTimer' = FALSE
  /\ shown' = NoSnapshot
  /\ UNCHANGED <<polled, input, files, orch, runner, clients, restarts, ghosts, editor, rootCsv,
                 publicCsv, waiter, uploadEnded, put, calls, fsys, two>>

NextCard ==
  \/ NextSeq
  \/ FetchProgress
  \/ HideTimeout

CardSpec == Init /\ [][NextCard]_vars

\* C22: the card of GlobalProgress is hidden or shows the snapshot the latest
\* poll returned: it shows a 'processing' snapshot only while the latest poll
\* returned 'processing', and never keeps an earlier one.
ClaimC22 == shown \in {NoSnapshot, polled}

(***************************************************************************)
(* PUT /api/datasets/:datasetId/update                                     *)
(***************************************************************************)
\* the rows a request body may hold
PutRows == {<<>>, <<Row(<<"a">>, ManualSource)>>}

\* req.body: a string (text/plain), or the object express leaves otherwise
Bodies ==
  {[type |-> "object", text |-> "", rows |-> <<>>],
   [type |-> "string", text |-> "", rows |-> <<>>]}
    \cup {[type |-> "string", text |-> "csv", rows |-> r] : r \in PutRows}

\* the dataset of the model, and an ID no directory exists for
PutTargets == {"dataset", "missing"}

\* mutant of InvalidBody: only the type is tested
InvalidBodyTypeOnly(b) == b.type # "string"

\* !csvContent || typeof csvContent !== 'string'
InvalidBody(b) == (b.type = "string" /\ b.text = "") \/ b.type # "string"

\* fs.access(datasetDir) succeeds
DatasetExists(t) == t = "dataset" /\ metadata.status # "none"

PutStatus(t, b) ==
  IF InvalidBody(b) THEN 400
  ELSE IF ~DatasetExists(t) THEN 404
  ELSE 200

\* fs.writeFile(extractedPath, csvContent)
WrittenCsv(b) == File(b.rows)

(* the whole handler *)
PutUpdate(t, b) ==
  /\ putAnswer' = PutStatus(t, b)
  /\ answered' = answered \cup {PutStatus(t, b)}
  /\ IF PutStatus(t, b) = 200
     THEN /\ extractedCsv' = WrittenCsv(b)
          /\ metadata' = [metadata EXCEPT !.modifiedBy = "dataset-editor"]
          /\ publicCsv' = IF publicCsv.exists THEN WrittenCsv(b) ELSE publicCsv
     ELSE UNCHANGED <<extractedCsv, metadata, publicCsv>>
  /\ UNCHANGED <<input, cleanCsv, progress, orch, runner, clients, restarts, ghosts, editor,
                 rootCsv, waiter, uploadEnded, card, calls, fsys, two>>

NextPut ==
  \/ NextSeq
  \/ \E t \in PutTargets, b \in Bodies : PutUpdate(t, b)

PutSpec == Init /\ [][NextPut]_vars

\* C28: PUT /api/datasets/:datasetId/update answers 400 for an empty or
\* non-string body and 404 for a dataset directory that does not exist, and in
\* both cases extracted.csv, metadata.json and the public copy are unchanged.
ClaimC28 ==
  [][\A t \in PutTargets, b \in Bodies :
       PutUpdate(t, b) =>
         /\ (b.type # "string" \/ b.text = "") => putAnswer' = 400
         /\ (b.type = "string" /\ b.text # "" /\ (t = "missing" \/ metadata = NoMetadata))
              => putAnswer' = 404
         /\ putAnswer' \in {400, 404} => UNCHANGED <<extractedCsv, metadata, publicCsv>>]_vars

\* both refusals have been answered for a dataset that has a public copy, and
\* an accepted update has been written
WitnessC28 ==
  /\ {200, 400, 404} \subseteq answered
  /\ putAnswer \in {400, 404}
  /\ publicCsv.exists /\ metadata.modifiedBy = "dataset-editor"

(***************************************************************************)
(* runPythonScript: the promise and the handlers of one call               *)
(***************************************************************************)
\* mutant of Unsettled: the handlers do not test isResolved
UnsettledAlways(c) == TRUE

\* if (!isResolved)
Unsettled(c) == ~c.isResolved

\* resolve(...) or reject(...) is called by handler h
Settle(c, h, o) ==
  [c EXCEPT !.settled = @ + 1,
            !.outcome = IF c.outcome = "pending" THEN o ELSE @,
            !.by = IF c.outcome = "pending" THEN h ELSE @]

\* process.kill(-pid, 'SIGTERM'), pythonProcess.kill('SIGKILL') if that throws
KillSignals == {"SIGTERM", "SIGKILL", "failed"}

OthersUnchanged ==
  UNCHANGED <<input, files, orch, runner, clients, restarts, ghosts, editor, rootCsv,
              publicCsv, waiter, uploadEnded, card, put, fsys, two>>

(* runPythonScript(...): spawn, isResolved = false, setTimeout *)
CallRunPythonScript(i) ==
  /\ calls[i].state = "none"
  /\ calls' = [calls EXCEPT ![i] = [NotCalled EXCEPT !.state = "called", !.timer = "armed"]]
  /\ OthersUnchanged

(* the callback of setTimeout *)
OnTimeout(i) ==
  /\ calls[i].timer = "armed"
  /\ \E sig \in KillSignals :
       calls' = [calls EXCEPT ![i] =
         IF Unsettled(calls[i])
         THEN [Settle(calls[i], "timeout", "rejected") EXCEPT
                 !.isResolved = TRUE, !.timer = "fired", !.signal = sig]
         ELSE [calls[i] EXCEPT !.timer = "fired"]]
  /\ OthersUnchanged

(* pythonProcess.on('close') *)
OnClose(i, code) ==
  /\ calls[i].state = "called" /\ ~calls[i].closed
  /\ calls' = [calls EXCEPT ![i] =
       IF Unsettled(calls[i])
       THEN [Settle(calls[i], "close", IF code = 0 THEN "resolved" ELSE "rejected") EXCEPT
               !.isResolved = TRUE, !.closed = TRUE,
               !.timer = IF @ = "armed" THEN "cleared" ELSE @]
       ELSE [calls[i] EXCEPT !.closed = TRUE]]
  /\ OthersUnchanged

(* pythonProcess.on('error') *)
OnError(i) ==
  /\ calls[i].state = "called" /\ ~calls[i].errored
  /\ calls' = [calls EXCEPT ![i] =
       IF Unsettled(calls[i])
       THEN [Settle(calls[i], "error", "rejected") EXCEPT
               !.isResolved = TRUE, !.errored = TRUE,
               !.timer = IF @ = "armed" THEN "cleared" ELSE @]
       ELSE [calls[i] EXCEPT !.errored = TRUE]]
  /\ OthersUnchanged

NextCalls ==
  \/ \E i \in CallIds : CallRunPythonScript(i)
  \/ \E i \in CallIds : OnTimeout(i)
  \/ \E i \in CallIds, code \in {0, 1} : OnClose(i, code)
  \/ \E i \in CallIds : OnError(i)

CallsSpec == Init /\ [][NextCalls]_vars

\* C24: the promise of runPythonScript is settled exactly once whatever the
\* order of the timeout, 'close' and 'error': once one of them has run it is
\* settled and no later one settles it again; when the timeout settled it the
\* outcome stays its rejection; when close or error settled it the timer is
\* cleared and no kill is sent.
ClaimC24 ==
  \A i \in CallIds :
    LET c == calls[i]
    IN  /\ c.settled <= 1
        /\ (c.closed \/ c.errored \/ c.timer = "fired") => c.settled = 1
        /\ c.by = "timeout" => c.outcome = "rejected"
        /\ c.by \in {"close", "error"} => (c.timer = "cleared" /\ c.signal = "none")

\* the timeout rejected the promise of a call and its close and error events
\* came afterwards; another call was resolved by close and got its error after
WitnessC24 ==
  \E i, j \in CallIds :
    /\ calls[i].by = "timeout" /\ calls[i].closed /\ calls[i].errored
    /\ calls[j].by = "close" /\ calls[j].outcome = "resolved" /\ calls[j].errored

(***************************************************************************)
(* DELETE /api/datasets/:datasetId                                         *)
(***************************************************************************)
\* the IDs of the datasets that uploads create
DatasetNames == {<<"x">>, <<"y">>}

\* req.params.datasetId after decoding: a dataset, '.', '..', and '..%2Fd',
\* '..%2Fd2', '..%2Fe' (the datasets directory, and two names beside it)
DeleteIds ==
  DatasetNames \cup
    {<<".">>, <<".", ".">>, <<".", ".", "/", "d">>, <<".", ".", "/", "d", "2">>,
     <<".", ".", "/", "e">>}

\* fs.rm(path, { recursive: true, force: true })
RmRecursive(ds, p) == {d \in ds : ~AtOrBelow(d, p)}

(* POST /api/upload: fs.mkdir of the datasets directory and the dataset's *)
MkDataset(n) ==
  /\ PathJoin(DatasetsDir, n) \notin dirs
  /\ dirs' = dirs \cup {DatasetsDir, PathJoin(DatasetsDir, n)}
  /\ UNCHANGED <<delId, delAnswer, removed>>
  /\ UNCHANGED <<input, files, orch, runner, clients, restarts, ghosts, editor, rootCsv,
                 publicCsv, waiter, uploadEnded, card, put, calls, two>>

(* the whole handler *)
DeleteRequest(id) ==
  LET datasetPath == PathJoin(PathJoin(Dirname, <<"d">>), id)
      resolvedPath == PathResolve(datasetPath)
  IN  /\ delId' = id
      /\ IF ~StartsWith(resolvedPath, DatasetsDir)
         THEN /\ delAnswer' = 400
              /\ removed' = {}
              /\ UNCHANGED dirs
         ELSE /\ delAnswer' = 200
              /\ dirs' = RmRecursive(dirs, datasetPath)
              /\ removed' = dirs \ RmRecursive(dirs, datasetPath)
      /\ UNCHANGED <<input, files, orch, runner, clients, restarts, ghosts, editor, rootCsv,
                     publicCsv, waiter, uploadEnded, card, put, calls, two>>

NextDelete ==
  \/ \E n \in DatasetNames : MkDataset(n)
  \/ \E id \in DeleteIds : DeleteRequest(id)

DeleteSpec == Init /\ [][NextDelete]_vars

\* a path that lies within the datasets directory: a proper descendant of it
WithinDatasets(p) == AtOrBelow(p, DatasetsDir) /\ p # DatasetsDir

\* C25: DELETE /api/datasets/:datasetId removes only paths that lie within
\* the datasets directory; for a datasetId that names any other path it
\* answers 400 and removes nothing.
ClaimC25 ==
  /\ \A p \in removed : WithinDatasets(p)
  /\ (delAnswer # 0 /\ ~WithinDatasets(PathJoin(PathJoin(Dirname, <<"d">>), delId)))
       => (delAnswer = 400 /\ removed = {})

(***************************************************************************)
(* POST /api/upload: two requests, up to the end of process_excel.py       *)
(***************************************************************************)
TwoUnchanged ==
  UNCHANGED <<input, files, orch, runner, clients, restarts, ghosts, editor, rootCsv,
              publicCsv, waiter, uploadEnded, card, put, calls, fsys>>

(* time passes *)
Tick ==
  /\ now < MaxClock
  /\ now' = now + 1
  /\ UNCHANGED <<ups, scriptFile, disk, clean>>
  /\ TwoUnchanged

(* multer stores the file under its original name; the handler makes the
   dataset ID, the directory and metadata.json *)
UploadArrives(u, n) ==
  /\ ups[u].pc = "none"
  /\ disk' = [disk EXCEPT ![n] = u]
  /\ ups' = [ups EXCEPT ![u] = [NoUpload EXCEPT !.pc = "created", !.filename = n,
                                  !.datasetId = generateDatasetId(n, now)]]
  /\ UNCHANGED <<now, scriptFile, clean>>
  /\ TwoUnchanged

(* await fs.readFile(processExcelPath) *)
ReadScript(u) ==
  /\ ups[u].pc = "created"
  /\ ups' = [ups EXCEPT ![u].pc = "read"]
  /\ UNCHANGED <<now, scriptFile, disk, clean>>
  /\ TwoUnchanged

(* both lines replaced; await fs.writeFile(processExcelPath, ...) *)
WriteScript(u) ==
  /\ ups[u].pc = "read"
  /\ scriptFile' = [input_file |-> ups[u].filename, output_file |-> ups[u].datasetId]
  /\ ups' = [ups EXCEPT ![u].pc = "written"]
  /\ UNCHANGED <<now, disk, clean>>
  /\ TwoUnchanged

(* runPythonScript('process_excel.py'): python3 starts and reads the script *)
PythonReadsScript(u) ==
  /\ ups[u].pc = "written"
  /\ ups' = [ups EXCEPT ![u].pc = "running", ![u].ran = scriptFile]
  /\ UNCHANGED <<now, scriptFile, disk, clean>>
  /\ TwoUnchanged

(* the script reads input_file and writes output_file; the process closes *)
PythonRuns(u) ==
  /\ ups[u].pc = "running"
  /\ LET from == disk[ups[u].ran.input_file]
         out == ups[u].ran.output_file
     IN  /\ ups' = [ups EXCEPT ![u].pc = "done", ![u].readFrom = from]
         /\ clean' = {c \in clean : c.datasetId # out} \cup {[datasetId |-> out, rows |-> from]}
  /\ UNCHANGED <<now, scriptFile, disk>>
  /\ TwoUnchanged

NextUploads ==
  \/ Tick
  \/ \E u \in Uploads, n \in FileNames : UploadArrives(u, n)
  \/ \E u \in Uploads : ReadScript(u)
  \/ \E u \in Uploads : WriteScript(u)
  \/ \E u \in Uploads : PythonReadsScript(u)
  \/ \E u \in Uploads : PythonRuns(u)

UploadsSpec == Init /\ [][NextUploads]_vars

\* C21: whatever the interleaving of two POST /api/upload requests, the run of
\* process_excel.py of each reads that request's uploaded file and writes
\* clean.csv into that request's dataset directory.
ClaimC21 ==
  \A u \in Uploads :
    /\ ups[u].pc \in {"running", "done"} =>
         /\ ups[u].ran.input_file = ups[u].filename
         /\ ups[u].ran.output_file = ups[u].datasetId
    /\ ups[u].pc = "done" => ups[u].readFrom = u

\* C26: two distinct POST /api/upload requests never get the same dataset ID.
ClaimC26 ==
  \A u, v \in Uploads :
    (u # v /\ ups[u].pc # "none" /\ ups[v].pc # "none") => ups[u].datasetId # ups[v].datasetId

====
